---- MODULE Spec2Model ----
(***************************************************************************)
(* A model of the notebook panel (src/src/notebook/panel.ts): the          *)
(* completion coordination of NotebookPanel (onTextChange,                 *)
(* onCompletionRequest and the two reactions chained on kernel.complete,   *)
(* onCompletionSelect), the rebinding of the active cell's editor signals  *)
(* (onContentChanged), restart(), trustNotebook(), the document metadata   *)
(* taken from the kernel (handleKernelChange) and the title of the panel.  *)
(*                                                                         *)
(* JavaScript runs one job at a time.  An event handler (a signal emitted  *)
(* by an editor, a call of restart(), ...) is a job of its own and is      *)
(* taken only when the queue of promise reactions, microtasks, is empty;   *)
(* the reactions of a settled promise run in FIFO order.  The settling of  *)
(* a promise by its owner (the kernel answers, the user closes a dialog)   *)
(* may happen at any time.                                                 *)
(*                                                                         *)
(* A nullable JavaScript value is a sequence of length at most one: Null   *)
(* is <<>> and the value v is <<v>>.  A text is a sequence of characters.  *)
(***************************************************************************)
EXTENDS Integers, Sequences, FiniteSets, TLC

\* Bounds of the model.
MaxRequests == 2    \* completion requests issued (caps _pendingComplete)
MaxCells == 3       \* cells of the notebook
MaxRestarts == 2    \* calls of restart()
MaxTrusts == 2      \* calls of trustNotebook()
MaxAttached == 2    \* kernels attached to the context, the first one included
MaxDirtyEvents == 4 \* 'dirty' changes of the model that report true

Null == <<>>
Some(v) == <<v>>
Val(x) == x[1]

NL == "\n"
NoKernel == "null"
Kernels == {"k1", "k2"}

VARIABLES
  kernel,             \* context.kernel: a kernel or NoKernel
  _pendingComplete,   \* NotebookPanel._pendingComplete
  completion,         \* this._completion.model: options, original, current, cursor
  isDisposed,         \* the panel (and its completion model) has been disposed
  calls,              \* the kernel.complete calls, by captured token
  microtasks,         \* the queue of promise reactions ready to run
  errors,             \* the exceptions raised by handlers so far
  lastWriter,         \* history: the token of the response that last wrote each field
  allOk,              \* history: every kernel.complete call settled so far answered 'ok'
  cells,              \* model.cells: the 'trusted' metadata value of each cell
  activeCellIndex,    \* this._content.activeCellIndex
  textChanged,        \* the cells whose editor.textChanged is connected to onTextChange
  completionRequested,\* the cells whose editor.completionRequested is connected
  delivered,          \* history: the last signal emitted and how often it was handled
  restarts,           \* the calls of restart(), each with its captured kernel
  trusts,             \* the calls of trustNotebook()
  fetches,            \* the kernelInfo and getKernelSpec calls of handleKernelChange
  metadata,           \* model.getMetadata: the language_info and kernelspec values
  title,              \* this.title: its text and its className (a list of tokens)
  lastDirty,          \* history: newValue of the last 'dirty' change of the model
  applied             \* history: the last patch onCompletionSelect wrote to an editor

vars == <<kernel, _pendingComplete, completion, isDisposed, calls, microtasks,
          errors, lastWriter, allOk, cells, activeCellIndex, textChanged,
          completionRequested, delivered, restarts, trusts, fetches, metadata,
          title, lastDirty, applied>>

completionVars == <<_pendingComplete, completion, calls, lastWriter, allOk>>
bindingVars == <<activeCellIndex, textChanged, completionRequested>>
dialogVars == <<restarts, trusts>>
kernelVars == <<fetches, metadata>>
titleVars == <<title, lastDirty>>
widgetVars == <<kernelVars, titleVars, applied>>

-----------------------------------------------------------------------------
\* Texts and the changes an editor reports.

\* String.prototype.split(sep): the pieces of s between the separators.
RECURSIVE split(_, _)
split(s, sep) ==
  IF \A i \in DOMAIN s : s[i] # sep
    THEN <<s>>
    ELSE LET i == CHOOSE k \in DOMAIN s : s[k] = sep /\ \A j \in 1..(k-1) : s[j] # sep
         IN  <<SubSeq(s, 1, i-1)>> \o split(SubSeq(s, i+1, Len(s)), sep)

\* arr[i] of a JavaScript array or string (0-based); Null when out of range.
At(arr, i) == IF i + 1 \in DOMAIN arr THEN Some(arr[i + 1]) ELSE Null

\* /\S/: a character that is not whitespace.
Whitespace == {" ", "\t", NL}
MatchesNonSpace(c) == c \notin Whitespace

Texts == { <<"a">>, <<"a", NL, " ">> }

Positions(text) ==
  { p \in (0..Len(text)) \X (0..Len(text)) :
      /\ p[1] + 1 \in DOMAIN split(text, NL)
      /\ p[2] <= Len(split(text, NL)[p[1] + 1]) }

\* ITextChange: the full text after the change and the cursor (line, ch).
ITextChanges ==
  { [newValue |-> t, line |-> p[1], ch |-> p[2]] : <<t, p>> \in
      { tp \in Texts \X ((0..3) \X (0..3)) : tp[2] \in Positions(tp[1]) } }

\* ICompletionRequest: the text and the cursor when completion was requested
\* (the editor requests completion with the cursor right after a word).
ICompletionRequests ==
  { [currentValue |-> t, line |-> p[1], ch |-> p[2]] : <<t, p>> \in
      { tp \in Texts \X ((0..3) \X (0..3)) :
          /\ tp[2] \in Positions(tp[1])
          /\ tp[2][2] > 0
          /\ split(tp[1], NL)[tp[2][1] + 1][tp[2][2]] \notin Whitespace } }

\* The answers of kernel.complete to a request: 'ok' with matches and the
\* span they replace, or another status.
MatchLists == { <<>>, << <<"a", "b">>, <<"a", "c">> >> }
Replies(contents) ==
  { [status |-> "ok", matches |-> m, cursor_start |-> 0,
     cursor_end |-> contents.cursor_pos] : m \in MatchLists }
  \cup { [status |-> "error", matches |-> <<>>, cursor_start |-> 0, cursor_end |-> 0] }

-----------------------------------------------------------------------------
\* The completion model created by NotebookPanel.createCompletion.
NewCompletionModel ==
  [options |-> Null, original |-> Null, current |-> Null, cursor |-> Null]

NoWriter == [options |-> 0, original |-> 0, cursor |-> 0]

Idle == microtasks = <<>>

HasCell(i) == i + 1 \in DOMAIN cells

\* The value kernel.kernelInfo() resolves to, and that of kernel.getKernelSpec().
KernelInfoOf(k) == [language_info |-> [name |-> k]]
KernelSpecOf(k) == [display_name |-> k, language |-> k]

\* NotebookPanel.handleKernelChange(kernel): the two calls it makes on the
\* kernel; each reaction keeps the kernel it was called with.
handleKernelChange(k) ==
  << [kernel |-> k, kind |-> "kernelInfo", pc |-> "pending"],
     [kernel |-> k, kind |-> "getKernelSpec", pc |-> "pending"] >>

\* The class name added to a dirty widget, and the document's path.
DIRTY_CLASS == "jp-mod-dirty"
Paths == { <<"d", "/", "n">>, <<"m">>, <<"d", "/", "e", "/", "o">> }
InitialPath == <<"d", "/", "n">>

\* Array.prototype.pop of a non-empty array: its last element.
Pop(arr) == arr[Len(arr)]

\* The cell the panel binds at construction, if there is one.
InitialBinding == IF HasCell(activeCellIndex) THEN {activeCellIndex} ELSE {}

Init ==
  /\ kernel \in Kernels \cup {NoKernel}
  /\ _pendingComplete = 0
  /\ completion = NewCompletionModel
  /\ isDisposed = FALSE
  /\ calls = <<>>
  /\ microtasks = <<>>
  /\ errors = {}
  /\ lastWriter = NoWriter
  /\ allOk = TRUE
  /\ cells \in UNION { [1..n -> {TRUE, FALSE}] : n \in 0..MaxCells }
  /\ activeCellIndex \in 0..(MaxCells - 1)
  /\ textChanged = InitialBinding
  /\ completionRequested = InitialBinding
  /\ delivered = [signal |-> "none", cell |-> 0, old |-> 0, count |-> 0]
  /\ restarts = <<>>
  /\ trusts = <<>>
  /\ fetches = IF kernel # NoKernel THEN handleKernelChange(kernel) ELSE <<>>
  /\ metadata = [language_info |-> Null, kernelspec |-> Null]
  /\ title = [text |-> Pop(split(InitialPath, "/")), className |-> <<>>]
  /\ lastDirty = Null
  /\ applied = Null

-----------------------------------------------------------------------------
\* NotebookPanel.onTextChange(editor, change)
LineOf(text, line) == At(split(text, NL), line)
CharBefore(change) ==
  IF LineOf(change.newValue, change.line) = Null
    THEN Null
    ELSE At(Val(LineOf(change.newValue, change.line)), change.ch - 1)
NonSpaceBefore(change) ==
  CharBefore(change) # Null /\ MatchesNonSpace(Val(CharBefore(change)))

\* onTextChange without the line "model.cursor = null".
onTextChange_KeepsCursor(change) ==
  LET line == LineOf(change.newValue, change.line)
  IN  IF isDisposed \/ line = Null
        THEN \* this._completion is null, or line is undefined: a TypeError
             /\ errors' = errors \cup {"TypeError"}
             /\ UNCHANGED <<completion, lastWriter>>
        ELSE /\ UNCHANGED errors
             /\ IF NonSpaceBefore(change)
                  THEN /\ completion' =
                            IF completion.original # Null
                              THEN [completion EXCEPT !.current = Some(change)]
                              ELSE completion
                       /\ UNCHANGED lastWriter
                  ELSE /\ completion' = [completion EXCEPT !.options = Null,
                                                           !.original = Null]
                       /\ lastWriter' = NoWriter

\* onTextChange without the line "model.options = null".
onTextChange_KeepsOptions(change) ==
  LET line == LineOf(change.newValue, change.line)
  IN  IF isDisposed \/ line = Null
        THEN \* this._completion is null, or line is undefined: a TypeError
             /\ errors' = errors \cup {"TypeError"}
             /\ UNCHANGED <<completion, lastWriter>>
        ELSE /\ UNCHANGED errors
             /\ IF NonSpaceBefore(change)
                  THEN /\ completion' =
                            IF completion.original # Null
                              THEN [completion EXCEPT !.current = Some(change)]
                              ELSE completion
                       /\ UNCHANGED lastWriter
                  ELSE /\ completion' = [completion EXCEPT !.original = Null,
                                                           !.cursor = Null]
                       /\ lastWriter' = NoWriter

\* onTextChange without the test "if (model.original)".
onTextChange_AlwaysSetsCurrent(change) ==
  LET line == LineOf(change.newValue, change.line)
  IN  IF isDisposed \/ line = Null
        THEN /\ errors' = errors \cup {"TypeError"}
             /\ UNCHANGED <<completion, lastWriter>>
        ELSE /\ UNCHANGED errors
             /\ IF NonSpaceBefore(change)
                  THEN /\ completion' = [completion EXCEPT !.current = Some(change)]
                       /\ UNCHANGED lastWriter
                  ELSE /\ completion' = [completion EXCEPT !.options = Null,
                                                           !.original = Null,
                                                           !.cursor = Null]
                       /\ lastWriter' = NoWriter

onTextChange(change) ==
  LET line == LineOf(change.newValue, change.line)
  IN  IF isDisposed \/ line = Null
        THEN \* this._completion is null, or line is undefined: a TypeError
             /\ errors' = errors \cup {"TypeError"}
             /\ UNCHANGED <<completion, lastWriter>>
        ELSE /\ UNCHANGED errors
             /\ IF NonSpaceBefore(change)
                  THEN /\ completion' =
                            IF completion.original # Null
                              THEN [completion EXCEPT !.current = Some(change)]
                              ELSE completion
                       /\ UNCHANGED lastWriter
                  ELSE /\ completion' = [completion EXCEPT !.options = Null,
                                                           !.original = Null,
                                                           !.cursor = Null]
                       /\ lastWriter' = NoWriter

\* The first reaction to kernel.complete(contents), with the answer value.
CompleteThen1(token, value) ==
  IF \/ isDisposed
     \/ token # _pendingComplete
     \/ value.status # "ok"
    THEN UNCHANGED <<completion, lastWriter>>
    ELSE /\ completion' =
              [completion EXCEPT !.options = Some(value.matches),
                                 !.cursor = Some([start |-> value.cursor_start,
                                                  end |-> value.cursor_end])]
         /\ lastWriter' = [lastWriter EXCEPT !.options = token, !.cursor = token]

\* The second reaction, were it to bail like the first one on a stale token.
CompleteThen2_OnlyWhenCurrent(token, change) ==
  IF token # _pendingComplete
    THEN UNCHANGED <<completion, lastWriter>>
    ELSE /\ completion' = [completion EXCEPT !.original = Some(change)]
         /\ lastWriter' = [lastWriter EXCEPT !.original = token]

\* The second reaction: it runs whenever the first one returned.
CompleteThen2(token, change) ==
  /\ completion' = [completion EXCEPT !.original = Some(change)]
  /\ lastWriter' = [lastWriter EXCEPT !.original = token]

\* onCompletionRequest without "++this._pendingComplete".
onCompletionRequest_KeepsToken(change) ==
  IF isDisposed
    THEN /\ errors' = errors \cup {"TypeError"}
         /\ UNCHANGED <<_pendingComplete, calls>>
    ELSE /\ UNCHANGED errors
         /\ IF kernel = NoKernel
              THEN UNCHANGED <<_pendingComplete, calls>>
              ELSE /\ _pendingComplete' = _pendingComplete
                   /\ calls' = Append(calls,
                        [pc |-> "pending",
                         change |-> Some(change),
                         contents |-> [code |-> Val(LineOf(change.currentValue,
                                                            change.line)),
                                       cursor_pos |-> change.ch],
                         status |-> "none",
                         resetWhilePending |-> FALSE])

\* onCompletionRequest without the test of the kernel.
onCompletionRequest_NoKernelTest(change) ==
  IF isDisposed
    THEN /\ errors' = errors \cup {"TypeError"}
         /\ UNCHANGED <<_pendingComplete, calls>>
    ELSE /\ UNCHANGED errors
         /\ _pendingComplete' = _pendingComplete + 1
         /\ calls' = Append(calls,
              [pc |-> "pending",
               change |-> Some(change),
               contents |-> [code |-> Val(LineOf(change.currentValue,
                                                  change.line)),
                             cursor_pos |-> change.ch],
               status |-> "none",
               resetWhilePending |-> FALSE])

\* NotebookPanel.onCompletionRequest(editor, change)
onCompletionRequest(change) ==
  IF isDisposed
    THEN \* this._context is null: a TypeError
         /\ errors' = errors \cup {"TypeError"}
         /\ UNCHANGED <<_pendingComplete, calls>>
    ELSE /\ UNCHANGED errors
         /\ IF kernel = NoKernel
              THEN UNCHANGED <<_pendingComplete, calls>>
              ELSE /\ _pendingComplete' = _pendingComplete + 1
                   /\ calls' = Append(calls,
                        [pc |-> "pending",
                         change |-> Some(change),
                         contents |-> [code |-> Val(LineOf(change.currentValue,
                                                            change.line)),
                                       cursor_pos |-> change.ch],
                         status |-> "none",
                         resetWhilePending |-> FALSE])

\* A call whose promise chain has ended.
Done ==
  [pc |-> "done", change |-> Null, contents |-> [code |-> <<>>, cursor_pos |-> 0],
   status |-> "none", resetWhilePending |-> FALSE]

-----------------------------------------------------------------------------
\* The jobs of the completion coordinator.

\* The editor of a cell emits textChanged; a connected handler receives it.
\* History: the calls still pending when onTextChange resets the completion.
MarkReset(change) ==
  IF isDisposed \/ NonSpaceBefore(change)
    THEN calls
    ELSE [t \in DOMAIN calls |->
            IF calls[t].pc \in {"pending", "settled"}
              THEN [calls[t] EXCEPT !.resetWhilePending = TRUE]
              ELSE calls[t]]

TextChangedEmitted(cell, change) ==
  /\ Idle
  /\ HasCell(cell)
  /\ IF cell \in textChanged
       THEN onTextChange(change) /\ calls' = MarkReset(change)
       ELSE UNCHANGED <<completion, lastWriter, errors, calls>>
  /\ delivered' = [signal |-> "textChanged", cell |-> cell, old |-> cell,
                   count |-> IF cell \in textChanged THEN 1 ELSE 0]
  /\ UNCHANGED <<kernel, _pendingComplete, allOk, isDisposed, microtasks, cells,
                 bindingVars, dialogVars,
                 widgetVars>>

EmitTextChanged ==
  \E cell \in 0..(MaxCells - 1), change \in ITextChanges :
    TextChangedEmitted(cell, change)

\* The editor of a cell emits completionRequested.
CompletionRequestedEmitted(cell, change) ==
  /\ Idle
  /\ HasCell(cell)
  /\ _pendingComplete < MaxRequests
  /\ IF cell \in completionRequested
       THEN onCompletionRequest(change)
       ELSE UNCHANGED <<_pendingComplete, calls, errors>>
  /\ delivered' = [signal |-> "completionRequested", cell |-> cell, old |-> cell,
                   count |-> IF cell \in completionRequested THEN 1 ELSE 0]
  /\ UNCHANGED <<kernel, completion, isDisposed, microtasks, lastWriter, allOk, cells,
                 bindingVars, dialogVars,
                 widgetVars>>

EmitCompletionRequested ==
  \E cell \in 0..(MaxCells - 1), change \in ICompletionRequests :
    CompletionRequestedEmitted(cell, change)

\* The kernel answers a pending kernel.complete call: its promise is fulfilled
\* and the first reaction is queued.
CompleteResolves ==
  \E token \in DOMAIN calls :
    /\ calls[token].pc = "pending"
    /\ \E value \in Replies(calls[token].contents) :
         /\ microtasks' = Append(microtasks,
                [kind |-> "completeThen1", id |-> token, value |-> Some(value)])
         /\ calls' = [calls EXCEPT ![token].pc = "settled",
                                     ![token].status = value.status]
         /\ allOk' = (allOk /\ value.status = "ok")
    /\ UNCHANGED <<kernel, _pendingComplete, completion, isDisposed, errors, lastWriter,
                   cells, bindingVars, delivered, dialogVars,
                 widgetVars>>

\* The kernel call fails: the promise is rejected and neither reaction runs.
CompleteRejects ==
  \E token \in DOMAIN calls :
    /\ calls[token].pc = "pending"
    /\ calls' = [calls EXCEPT ![token] = Done]
    /\ allOk' = FALSE
    /\ UNCHANGED <<kernel, _pendingComplete, completion, isDisposed, microtasks, errors,
                   lastWriter, cells, bindingVars, delivered, dialogVars,
                 widgetVars>>

\* The head of the microtask queue is the first reaction of a completion call.
RunCompleteThen1 ==
  /\ microtasks # <<>>
  /\ Head(microtasks).kind = "completeThen1"
  /\ LET job == Head(microtasks)
     IN  /\ CompleteThen1(job.id, Val(job.value))
         /\ microtasks' = Append(Tail(microtasks),
                                 [kind |-> "completeThen2", id |-> job.id, value |-> Null])
  /\ UNCHANGED <<kernel, _pendingComplete, allOk, isDisposed, calls, errors, cells,
                 bindingVars, delivered, dialogVars,
                 widgetVars>>

\* The head of the microtask queue is the second reaction of a completion call.
RunCompleteThen2 ==
  /\ microtasks # <<>>
  /\ Head(microtasks).kind = "completeThen2"
  /\ LET job == Head(microtasks)
     IN  /\ CompleteThen2(job.id, Val(calls[job.id].change))
         /\ calls' = [calls EXCEPT ![job.id] = Done]
         /\ microtasks' = Tail(microtasks)
  /\ UNCHANGED <<kernel, _pendingComplete, allOk, isDisposed, errors, cells,
                 bindingVars, delivered, dialogVars,
                 widgetVars>>

\* NotebookPanel.dispose()
dispose ==
  /\ Idle
  /\ ~isDisposed
  /\ isDisposed' = TRUE
  /\ UNCHANGED <<kernel, completionVars, microtasks, errors, cells, bindingVars,
                 delivered, dialogVars,
                 widgetVars>>

\* The context's kernel is replaced by k (or detached) and kernelChanged is
\* emitted; the panel's handler calls handleKernelChange(context.kernel), and
\* kernel.kernelInfo() on a null kernel raises a TypeError.
KernelChanged(k) ==
  /\ Idle
  /\ k # kernel
  /\ k # NoKernel => Len(fetches) < 2 * MaxAttached
  /\ kernel' = k
  /\ IF k = NoKernel
       THEN /\ errors' = errors \cup {"TypeError"}
            /\ UNCHANGED fetches
       ELSE /\ fetches' = fetches \o handleKernelChange(k)
            /\ UNCHANGED errors
  /\ UNCHANGED <<completionVars, isDisposed, microtasks, cells, bindingVars,
                 delivered, dialogVars, metadata, titleVars, applied>>

\* context.changeKernel: the context's kernel is replaced.
ChangeKernel == \E k \in Kernels \cup {NoKernel} : KernelChanged(k)

\* The context's kernel is shut down.
DetachKernel == KernelChanged(NoKernel)

NextCompletion ==
  \/ EmitTextChanged
  \/ EmitCompletionRequested
  \/ CompleteResolves
  \/ CompleteRejects
  \/ RunCompleteThen1
  \/ RunCompleteThen2
  \/ dispose
  \/ DetachKernel

InitCompletion == Init /\ cells = <<TRUE>> /\ activeCellIndex = 0

SpecCompletion == InitCompletion /\ [][NextCompletion]_vars
-----------------------------------------------------------------------------
\* Properties of the completion coordinator.

\* The reaction at the head of the microtask queue, when it belongs to a
\* kernel.complete call; only that reaction can run next.
HeadIsReaction ==
  /\ microtasks # <<>>
  /\ Head(microtasks).kind \in {"completeThen1", "completeThen2"}
HeadCall == calls[Head(microtasks).id]
\* The step runs that reaction.
RunsReaction == HeadIsReaction /\ (RunCompleteThen1 \/ RunCompleteThen2)
AllAbsent(m) ==
  m.options = Null /\ m.original = Null /\ m.current = Null /\ m.cursor = Null

\* C1: a response whose captured token differs from the current
\* _pendingComplete changes no field of CompletionState.
C1_StaleResponseChangesNothing ==
  [][(RunsReaction /\ Head(microtasks).id # _pendingComplete)
       => completion' = completion]_vars

\* C2: once every issued kernel.complete call has resolved with status 'ok',
\* with no text change since the last request and the panel alive, options,
\* cursor and original all come from the most recently issued request.
AllResolvedOk ==
  /\ _pendingComplete > 0
  /\ \A t \in DOMAIN calls : calls[t].pc = "done"
  /\ allOk
  /\ delivered.signal = "completionRequested"
  /\ ~isDisposed
C2_StateFromLatestRequest ==
  AllResolvedOk =>
    /\ lastWriter.options = _pendingComplete
    /\ lastWriter.cursor = _pendingComplete
    /\ lastWriter.original = _pendingComplete

\* C3: a response discarded because the status is not 'ok', or because the
\* completion model has been disposed, changes no field of CompletionState
\* and raises no error.
C3_DiscardedResponseChangesNothing ==
  [][(RunsReaction /\ (HeadCall.status # "ok" \/ isDisposed))
       => (completion' = completion /\ errors' = errors)]_vars

\* A text change whose character before the cursor is absent or whitespace
\* is handled by onTextChange.
WhitespaceChanges == { change \in ITextChanges : ~NonSpaceBefore(change) }
WhitespaceChangeHandled(change) ==
  /\ delivered'.signal = "textChanged"
  /\ ~isDisposed
  /\ \E cell \in textChanged : TextChangedEmitted(cell, change)

C6_OptionsOnlyWithOriginal ==
  completion.options # Null => completion.original # Null

\* C6, amended: the same in every state in which no response handler is
\* between its two reactions.
BetweenReactions ==
  \E i \in DOMAIN microtasks : microtasks[i].kind = "completeThen2"
C6_OptionsOnlyWithOriginalWhenSettled ==
  ~BetweenReactions => (completion.options # Null => completion.original # Null)

\* A response has been applied completely: a session is open.
C6_Witness ==
  /\ ~BetweenReactions
  /\ completion.options # Null
  /\ completion.original # Null
  /\ lastWriter.options = lastWriter.original

\* C7: in no reachable state is original set by a response while options is
\* absent or was not set by that same response.
C7_OriginalOnlyAfterOptions ==
  lastWriter.original # 0 =>
    (completion.options # Null /\ lastWriter.options = lastWriter.original)
-----------------------------------------------------------------------------
\* The active-cell rebinding.

\* this._content.childAt(index): the cell, or Null when there is none.
childAt(index) == IF HasCell(index) THEN Some(index) ELSE Null

\* onContentChanged, were it not to disconnect the old editor.
onContentChanged_KeepsOld(args) ==
  IF args.name # "activeCellIndex"
    THEN UNCHANGED <<textChanged, completionRequested, errors>>
    ELSE IF isDisposed \/ childAt(args.oldValue) = Null
      THEN /\ errors' = errors \cup {"TypeError"}
           /\ UNCHANGED <<textChanged, completionRequested>>
      ELSE IF childAt(args.newValue) = Null
        THEN /\ textChanged' = textChanged \ {Val(childAt(args.oldValue))}
             /\ completionRequested' =
                  completionRequested \ {Val(childAt(args.oldValue))}
             /\ errors' = errors \cup {"TypeError"}
        ELSE /\ textChanged' = textChanged
                                 \cup {Val(childAt(args.newValue))}
             /\ completionRequested' =
                  completionRequested
                    \cup {Val(childAt(args.newValue))}
             /\ UNCHANGED errors

\* NotebookPanel.onContentChanged(sender, args).  A missing cell makes
\* cell.editor raise a TypeError at the point it is read.
onContentChanged(args) ==
  IF args.name # "activeCellIndex"
    THEN UNCHANGED <<textChanged, completionRequested, errors>>
    ELSE IF isDisposed \/ childAt(args.oldValue) = Null
      THEN /\ errors' = errors \cup {"TypeError"}
           /\ UNCHANGED <<textChanged, completionRequested>>
      ELSE IF childAt(args.newValue) = Null
        THEN /\ textChanged' = textChanged \ {Val(childAt(args.oldValue))}
             /\ completionRequested' =
                  completionRequested \ {Val(childAt(args.oldValue))}
             /\ errors' = errors \cup {"TypeError"}
        ELSE /\ textChanged' = (textChanged \ {Val(childAt(args.oldValue))})
                                 \cup {Val(childAt(args.newValue))}
             /\ completionRequested' =
                  (completionRequested \ {Val(childAt(args.oldValue))})
                    \cup {Val(childAt(args.newValue))}
             /\ UNCHANGED errors

\* The content widget changes its active cell and emits stateChanged.
ActiveCellIndexChanged(newValue) ==
  /\ Idle
  /\ newValue # activeCellIndex
  /\ activeCellIndex' = newValue
  /\ onContentChanged([name |-> "activeCellIndex",
                       oldValue |-> activeCellIndex, newValue |-> newValue])
  /\ delivered' = [signal |-> "activeCellIndex", cell |-> newValue,
                   old |-> activeCellIndex, count |-> 1]
  /\ UNCHANGED <<kernel, completionVars, isDisposed, microtasks, cells, dialogVars,
                 widgetVars>>

SetActiveCellIndex ==
  \E newValue \in 0..(MaxCells - 1) : ActiveCellIndexChanged(newValue)

\* The content widget emits stateChanged for another of its properties.
OtherContentChanged ==
  /\ Idle
  /\ delivered.signal # "mode"
  /\ onContentChanged([name |-> "mode", oldValue |-> 0, newValue |-> 0])
  /\ delivered' = [signal |-> "mode", cell |-> activeCellIndex,
                   old |-> activeCellIndex, count |-> 1]
  /\ UNCHANGED <<kernel, completionVars, isDisposed, microtasks, cells,
                 activeCellIndex, dialogVars,
                 widgetVars>>

NextRebind ==
  \/ SetActiveCellIndex
  \/ OtherContentChanged
  \/ EmitTextChanged
  \/ EmitCompletionRequested
  \/ dispose

InitRebind == Init /\ kernel = NoKernel /\ \A i \in DOMAIN cells : cells[i]

SpecRebind == InitRebind /\ [][NextRebind]_vars
-----------------------------------------------------------------------------
\* restart() and trustNotebook(): an operation behind a confirmation dialog.

\* The text of the button that closes a dialog of showDialog.
DialogAnswers == {"OK", "CANCEL"}

\* NotebookPanel.restart(), up to the dialog: the record of the call.
\* History: kernelAtAnswer is context.kernel when the dialog is closed.
restart ==
  IF kernel = NoKernel
    THEN [kernel |-> kernel, pc |-> "done", dialogs |-> 0, answer |-> Null,
          restarted |-> <<>>, kernelRestart |-> "none", result |-> Some(FALSE),
          kernelAtAnswer |-> Null]
    ELSE [kernel |-> kernel, pc |-> "dialog", dialogs |-> 1, answer |-> Null,
          restarted |-> <<>>, kernelRestart |-> "none", result |-> Null,
          kernelAtAnswer |-> Null]

\* The reaction, were it to read context.kernel again.
restartThen_CurrentKernel(call, text) ==
  IF text = "OK"
    THEN [call EXCEPT !.pc = "restarting",
                      !.restarted = Append(call.restarted, kernel),
                      !.kernelRestart = "pending"]
    ELSE [call EXCEPT !.pc = "done", !.result = Some(FALSE)]

\* The reaction, were it to restart the kernel whatever the answer.
restartThen_IgnoresAnswer(call, text) ==
  [call EXCEPT !.pc = "restarting",
               !.restarted = Append(call.restarted, call.kernel),
               !.kernelRestart = "pending"]

\* The reaction to the dialog's answer.
restartThen(call, text) ==
  IF text = "OK"
    THEN [call EXCEPT !.pc = "restarting",
                      !.restarted = Append(call.restarted, call.kernel),
                      !.kernelRestart = "pending"]
    ELSE [call EXCEPT !.pc = "done", !.result = Some(FALSE)]

\* The reaction to kernel.restart(): () => { return true; }
restartDone(call) == [call EXCEPT !.pc = "done", !.result = Some(TRUE)]

CallRestart ==
  /\ Idle
  /\ Len(restarts) < MaxRestarts
  /\ IF isDisposed
       THEN \* this._context is null: a TypeError
            /\ errors' = errors \cup {"TypeError"}
            /\ UNCHANGED restarts
       ELSE /\ restarts' = Append(restarts, restart)
            /\ UNCHANGED errors
  /\ UNCHANGED <<kernel, completionVars, isDisposed, microtasks, cells, bindingVars,
                 delivered, trusts,
                 widgetVars>>

\* The user closes the dialog of a restart() call.
AnswerRestartDialog ==
  \E i \in DOMAIN restarts, text \in DialogAnswers :
    /\ restarts[i].pc = "dialog"
    /\ restarts' = [restarts EXCEPT ![i].pc = "answered", ![i].answer = Some(text),
                                    ![i].kernelAtAnswer = Some(kernel)]
    /\ microtasks' = Append(microtasks,
                            [kind |-> "restartThen", id |-> i, value |-> Some(text)])
    /\ UNCHANGED <<kernel, completionVars, isDisposed, errors, cells, bindingVars,
                   delivered, trusts,
                 widgetVars>>

RunRestartThen ==
  /\ microtasks # <<>>
  /\ Head(microtasks).kind = "restartThen"
  /\ LET job == Head(microtasks)
     IN  restarts' = [restarts EXCEPT
                        ![job.id] = restartThen(restarts[job.id], Val(job.value))]
  /\ microtasks' = Tail(microtasks)
  /\ UNCHANGED <<kernel, completionVars, isDisposed, errors, cells, bindingVars,
                 delivered, trusts,
                 widgetVars>>

\* The kernel has restarted: the promise of kernel.restart() is fulfilled.
KernelRestartResolves ==
  \E i \in DOMAIN restarts :
    /\ restarts[i].pc = "restarting"
    /\ restarts' = [restarts EXCEPT ![i].pc = "restarted",
                                    ![i].kernelRestart = "resolved"]
    /\ microtasks' = Append(microtasks,
                            [kind |-> "restartDone", id |-> i, value |-> Null])
    /\ UNCHANGED <<kernel, completionVars, isDisposed, errors, cells, bindingVars,
                   delivered, trusts,
                 widgetVars>>

\* The restart fails: the promise of restart() is rejected.
KernelRestartRejects ==
  \E i \in DOMAIN restarts :
    /\ restarts[i].pc = "restarting"
    /\ restarts' = [restarts EXCEPT ![i].pc = "rejected",
                                    ![i].kernelRestart = "rejected"]
    /\ UNCHANGED <<kernel, completionVars, isDisposed, microtasks, errors, cells,
                   bindingVars, delivered, trusts,
                 widgetVars>>

RunRestartDone ==
  /\ microtasks # <<>>
  /\ Head(microtasks).kind = "restartDone"
  /\ LET job == Head(microtasks)
     IN  restarts' = [restarts EXCEPT ![job.id] = restartDone(restarts[job.id])]
  /\ microtasks' = Tail(microtasks)
  /\ UNCHANGED <<kernel, completionVars, isDisposed, errors, cells, bindingVars,
                 delivered, trusts,
                 widgetVars>>

NextRestart ==
  \/ CallRestart
  \/ AnswerRestartDialog
  \/ RunRestartThen
  \/ KernelRestartResolves
  \/ KernelRestartRejects
  \/ RunRestartDone
  \/ ChangeKernel
  \/ dispose

InitRestart == Init /\ cells = <<TRUE>> /\ activeCellIndex = 0

SpecRestart == InitRestart /\ [][NextRestart]_vars

\* The scan of trustNotebook: every cell's 'trusted' value is truthy.
AllTrusted(cs) == \A i \in DOMAIN cs : cs[i]

\* trustNotebook(model, host), up to the dialog: the record of the call.
trustNotebook ==
  IF AllTrusted(cells)
    THEN [pc |-> "done", dialogs |-> 0, answer |-> Null]
    ELSE [pc |-> "dialog", dialogs |-> 1, answer |-> Null]

\* The reaction, were its loop to stop one cell early.
trustThen_SkipsLastCell(cs, text) ==
  IF text = "OK"
    THEN [i \in DOMAIN cs |-> IF i < Len(cs) THEN TRUE ELSE cs[i]]
    ELSE cs

\* The reaction to the dialog's answer: the cells' flags afterwards.
trustThen(cs, text) ==
  IF text = "OK" THEN [i \in DOMAIN cs |-> TRUE] ELSE cs

CallTrustNotebook ==
  /\ Idle
  /\ Len(trusts) < MaxTrusts
  /\ trusts' = Append(trusts, trustNotebook)
  /\ UNCHANGED <<kernel, completionVars, isDisposed, microtasks, errors, cells,
                 bindingVars, delivered, restarts,
                 widgetVars>>

\* The user closes the dialog of a trustNotebook() call.
AnswerTrustDialog ==
  \E i \in DOMAIN trusts, text \in DialogAnswers :
    /\ trusts[i].pc = "dialog"
    /\ trusts' = [trusts EXCEPT ![i].pc = "answered", ![i].answer = Some(text)]
    /\ microtasks' = Append(microtasks,
                            [kind |-> "trustThen", id |-> i, value |-> Some(text)])
    /\ UNCHANGED <<kernel, completionVars, isDisposed, errors, cells, bindingVars,
                   delivered, restarts,
                 widgetVars>>

RunTrustThen ==
  /\ microtasks # <<>>
  /\ Head(microtasks).kind = "trustThen"
  /\ cells' = trustThen(cells, Val(Head(microtasks).value))
  /\ trusts' = [trusts EXCEPT ![Head(microtasks).id].pc = "done"]
  /\ microtasks' = Tail(microtasks)
  /\ UNCHANGED <<kernel, completionVars, isDisposed, errors, bindingVars,
                 delivered, restarts,
                 widgetVars>>

\* The user adds a cell to the notebook; a new cell is not trusted.
InsertCell ==
  /\ Idle
  /\ Len(cells) < MaxCells
  /\ cells' = Append(cells, FALSE)
  /\ UNCHANGED <<kernel, completionVars, isDisposed, microtasks, errors,
                 bindingVars, delivered, dialogVars,
                 widgetVars>>

NextTrust ==
  \/ CallTrustNotebook
  \/ AnswerTrustDialog
  \/ RunTrustThen
  \/ InsertCell

InitTrust == Init /\ kernel = NoKernel /\ activeCellIndex = 0

SpecTrust == InitTrust /\ [][NextTrust]_vars

-----------------------------------------------------------------------------
\* Properties of the rebinding, of restart() and of trustNotebook().

\* C8: restart() with no kernel resolves to false and shows no dialog; with
\* a kernel and an answer other than 'OK' it resolves to false and never
\* calls kernel.restart; with a kernel and the answer 'OK' it calls
\* kernel.restart exactly once, on that kernel, and resolves to true only
\* after that call has resolved.
C8_Restart ==
  \A i \in DOMAIN restarts :
    LET r == restarts[i]
    IN  /\ r.kernel = NoKernel =>
             /\ r.pc = "done" /\ r.result = Some(FALSE)
             /\ r.dialogs = 0 /\ r.restarted = <<>>
        /\ r.kernel # NoKernel => r.dialogs = 1
        /\ r.answer = Null => r.restarted = <<>> /\ r.result # Some(TRUE)
        /\ (r.answer # Null /\ r.answer # Some("OK")) =>
             /\ r.restarted = <<>>
             /\ r.pc \in {"answered", "done"}
             /\ r.pc = "done" => r.result = Some(FALSE)
             /\ r.pc = "answered" => r.result = Null
        /\ r.answer = Some("OK") =>
             /\ r.pc = "answered" => r.restarted = <<>>
             /\ r.pc # "answered" => r.restarted = <<r.kernel>>
             /\ r.result # Some(FALSE)
             /\ r.result = Some(TRUE) <=> r.pc = "done"
             /\ r.result = Some(TRUE) => r.kernelRestart = "resolved"

\* One call was confirmed and has resolved to true after the kernel
\* restarted; another was declined and has resolved to false.
C8_Witness ==
  /\ \E i \in DOMAIN restarts :
       /\ restarts[i].answer = Some("OK")
       /\ restarts[i].result = Some(TRUE)
       /\ restarts[i].restarted = <<restarts[i].kernel>>
  /\ \E i \in DOMAIN restarts :
       /\ restarts[i].answer = Some("CANCEL")
       /\ restarts[i].result = Some(FALSE)

\* C9: trustNotebook shows no prompt and changes no flag when every cell is
\* trusted; otherwise it prompts exactly once, the answer 'OK' makes every
\* cell's flag true and any other answer changes no flag; no step updates
\* only some of the untrusted cells.
C9_TrustNotebook ==
  [][/\ CallTrustNotebook =>
          LET t == trusts'[Len(trusts')]
          IN  /\ cells' = cells
              /\ AllTrusted(cells) => (t.dialogs = 0 /\ t.pc = "done")
              /\ ~AllTrusted(cells) => (t.dialogs = 1 /\ t.pc = "dialog")
     /\ AnswerTrustDialog => cells' = cells
     /\ RunTrustThen =>
          IF Val(Head(microtasks).value) = "OK"
            THEN DOMAIN cells' = DOMAIN cells /\ AllTrusted(cells')
            ELSE cells' = cells
     /\ \A i \in DOMAIN trusts : trusts'[i].dialogs = trusts[i].dialogs
     /\ \/ cells' = cells
        \/ DOMAIN cells' = DOMAIN cells /\ AllTrusted(cells')
        \/ InsertCell]_vars

\* A call that found an untrusted cell has prompted once, was answered 'OK'
\* and has trusted every cell of a notebook of several cells.
C9_Witness ==
  /\ Len(cells) >= 2
  /\ AllTrusted(cells)
  /\ \E i \in DOMAIN trusts :
       /\ trusts[i].dialogs = 1
       /\ trusts[i].answer = Some("OK")
       /\ trusts[i].pc = "done"

\* C10: at most one cell editor is connected to the panel's handlers; an
\* activeCellIndex change between two existing cells leaves exactly the new
\* cell's editor connected, so that a text change emitted next by the new
\* cell's editor is delivered once and one emitted by the old cell's editor
\* is not delivered.
AtMostOneBinding ==
  /\ Cardinality(textChanged) <= 1
  /\ completionRequested = textChanged
ValidRebind(old, new) == ~isDisposed /\ HasCell(old) /\ HasCell(new)
C10_Rebinding ==
  /\ []AtMostOneBinding
  /\ [][/\ \A new \in 0..(MaxCells - 1) :
             (ActiveCellIndexChanged(new) /\ ValidRebind(activeCellIndex, new)) =>
               /\ textChanged' = {new}
               /\ completionRequested' = {new}
               /\ errors' = errors
        /\ \A cell \in 0..(MaxCells - 1), change \in ITextChanges :
             (/\ TextChangedEmitted(cell, change)
              /\ delivered.signal = "activeCellIndex"
              /\ ValidRebind(delivered.old, delivered.cell)) =>
               /\ cell = delivered.cell => delivered'.count = 1
               /\ cell = delivered.old => delivered'.count = 0]_vars

\* After a rebinding to the last cell, a text change of its editor has been
\* delivered.
C10_Witness ==
  /\ activeCellIndex = MaxCells - 1
  /\ textChanged = {MaxCells - 1}
  /\ delivered = [signal |-> "textChanged", cell |-> MaxCells - 1,
                  old |-> MaxCells - 1, count |-> 1]

\* C11: an activeCellIndex event whose oldValue or newValue names an index
\* at which childAt returns no cell raises nothing in onContentChanged, skips
\* the subscription change of the missing cell and still carries out the
\* change of the cell that exists.
C11_MissingCellIsSkipped ==
  [][\A new \in 0..(MaxCells - 1) :
       (/\ ActiveCellIndexChanged(new)
        /\ ~isDisposed
        /\ ~(HasCell(activeCellIndex) /\ HasCell(new))) =>
          /\ errors' = errors
          /\ HasCell(new) =>
               (new \in textChanged' /\ new \in completionRequested')
          /\ HasCell(activeCellIndex) =>
               /\ activeCellIndex \notin textChanged'
               /\ activeCellIndex \notin completionRequested']_vars
-----------------------------------------------------------------------------
\* The document metadata kept from the kernel (handleKernelChange).

\* The kernel answers a kernelInfo or getKernelSpec call: the promise is
\* fulfilled and its reaction is queued.
FetchResolves ==
  \E i \in DOMAIN fetches :
    /\ fetches[i].pc = "pending"
    /\ fetches' = [fetches EXCEPT ![i].pc = "settled"]
    /\ microtasks' = Append(microtasks,
                            [kind |-> "fetchThen", id |-> i, value |-> Null])
    /\ UNCHANGED <<kernel, completionVars, isDisposed, errors, cells, bindingVars,
                   delivered, dialogVars, metadata, titleVars, applied>>

\* The reaction of handleKernelChange to the answer of a call: it writes the
\* metadata entry of its kind from the kernel it was started for.
fetchThen(f) ==
  IF f.kind = "kernelInfo"
    THEN [metadata EXCEPT
            !.language_info = Some(KernelInfoOf(f.kernel).language_info)]
    ELSE [metadata EXCEPT
            !.kernelspec = Some([name |-> f.kernel,
                                 display_name |-> KernelSpecOf(f.kernel).display_name,
                                 language |-> KernelSpecOf(f.kernel).language])]

RunFetchThen ==
  /\ microtasks # <<>>
  /\ Head(microtasks).kind = "fetchThen"
  /\ LET job == Head(microtasks)
     IN  /\ metadata' = fetchThen(fetches[job.id])
         /\ fetches' = [fetches EXCEPT ![job.id].pc = "done"]
  /\ microtasks' = Tail(microtasks)
  /\ UNCHANGED <<kernel, completionVars, isDisposed, errors, cells, bindingVars,
                 delivered, dialogVars, titleVars, applied>>

NextKernel ==
  \/ ChangeKernel
  \/ FetchResolves
  \/ RunFetchThen

InitKernel == Init /\ cells = <<TRUE>> /\ activeCellIndex = 0

SpecKernel == InitKernel /\ [][NextKernel]_vars

\* The kernel answers every call, and a queued reaction runs.
SpecKernelFair ==
  InitKernel /\ [][NextKernel]_vars /\ WF_vars(FetchResolves) /\ WF_vars(RunFetchThen)

\* The metadata entries a kernel's answers produce.
MetadataOf(k) ==
  [language_info |-> Some(KernelInfoOf(k).language_info),
   kernelspec |-> Some([name |-> k,
                        display_name |-> KernelSpecOf(k).display_name,
                        language |-> KernelSpecOf(k).language])]

AllFetchesDone == \A i \in DOMAIN fetches : fetches[i].pc = "done"

\* C12: after kernel changes whose kernelInfo and getKernelSpec calls are
\* answered in any order, once every call has been answered the language_info
\* and kernelspec metadata are those of the kernel attached last.
C12_MetadataOfLatestKernel ==
  (kernel # NoKernel /\ AllFetchesDone) => metadata = MetadataOf(kernel)

\* Every call handleKernelChange has made is eventually answered and its
\* metadata entry written.
EveryFetchIsWritten ==
  \A i \in 1..(2 * MaxAttached) :
    [](i \in DOMAIN fetches => <>(i \in DOMAIN fetches /\ fetches[i].pc = "done"))

\* A reaction writes the entry of its kind with the value of its own kernel.
FetchWritesItsKernel ==
  [][RunFetchThen =>
       LET f == fetches[Head(microtasks).id]
       IN  IF f.kind = "kernelInfo"
             THEN metadata'.language_info = MetadataOf(f.kernel).language_info
             ELSE metadata'.kernelspec = MetadataOf(f.kernel).kernelspec]_vars

KernelChangedNeverRaises ==
  [][\A k \in Kernels \cup {NoKernel} : KernelChanged(k) => errors' = errors]_vars

\* What C13 says of the metadata alone.
C13_MetadataEventuallyWritten == EveryFetchIsWritten /\ FetchWritesItsKernel

\* C13: whenever a kernel is attached, at construction or by a kernelChanged
\* event, and the kernel answers its calls, the language_info and the
\* kernelspec entries are eventually written for that kernel, in either
\* order; and a kernelChanged event never makes the handler raise.
C13_KernelChangeWritesMetadata ==
  /\ EveryFetchIsWritten
  /\ FetchWritesItsKernel
  /\ KernelChangedNeverRaises
-----------------------------------------------------------------------------
\* The selection of a completion (onCompletionSelect).

\* CompletionModel.createPatch(value): the text of the request with the span
\* the kernel reported replaced by value, and the offset just after value;
\* null when no request or no span is recorded.
createPatch(state, value) ==
  IF state.original = Null \/ state.cursor = Null
    THEN Null
    ELSE LET text == Val(state.original).currentValue
             prefix == SubSeq(text, 1, Val(state.cursor).start)
             suffix == SubSeq(text, Val(state.cursor).end + 1, Len(text))
         IN  Some([text |-> prefix \o value \o suffix,
                   position |-> Len(prefix \o value)])

\* onCompletionSelect, were it to end the completion once the patch is made.
onCompletionSelect_ClosesSession(value) ==
  LET patch == createPatch(completion, value)
      cell == childAt(activeCellIndex)
  IN  IF cell = Null \/ patch = Null
        THEN /\ errors' = errors \cup {"TypeError"}
             /\ UNCHANGED <<applied, completion>>
        ELSE /\ applied' = Some([cell |-> Val(cell), value |-> value,
                                 state |-> completion,
                                 text |-> Val(patch).text,
                                 position |-> Val(patch).position])
             /\ completion' = [completion EXCEPT !.options = Null]
             /\ UNCHANGED errors

\* onCompletionSelect, were it to patch the first cell's editor.
onCompletionSelect_FirstCell(value) ==
  LET patch == createPatch(completion, value)
      cell == childAt(0)
  IN  IF cell = Null \/ patch = Null
        THEN /\ errors' = errors \cup {"TypeError"}
             /\ UNCHANGED <<applied, completion>>
        ELSE /\ applied' = Some([cell |-> Val(cell), value |-> value,
                                 state |-> completion,
                                 text |-> Val(patch).text,
                                 position |-> Val(patch).position])
             /\ UNCHANGED <<errors, completion>>

\* NotebookPanel.onCompletionSelect(widget, value).  A missing cell makes
\* cell.editor raise a TypeError, a null patch makes patch.text raise one.
\* History: applied keeps the editor written, with the value and the
\* completion state the patch was made from.
onCompletionSelect(value) ==
  LET patch == createPatch(completion, value)
      cell == childAt(activeCellIndex)
  IN  IF cell = Null \/ patch = Null
        THEN /\ errors' = errors \cup {"TypeError"}
             /\ UNCHANGED <<applied, completion>>
        ELSE /\ applied' = Some([cell |-> Val(cell), value |-> value,
                                 state |-> completion,
                                 text |-> Val(patch).text,
                                 position |-> Val(patch).position])
             /\ UNCHANGED <<errors, completion>>

\* The values the completion widget can offer.
Matches == UNION { { m[i] : i \in DOMAIN m } : m \in MatchLists }

\* The completion widget emits selected with one of the options it shows.
CompletionSelected(value) ==
  /\ Idle
  /\ ~isDisposed
  /\ completion.options # Null
  /\ \E i \in DOMAIN Val(completion.options) : Val(completion.options)[i] = value
  /\ onCompletionSelect(value)
  /\ UNCHANGED <<kernel, _pendingComplete, calls, lastWriter, allOk, isDisposed,
                 microtasks, cells, bindingVars, delivered, dialogVars, kernelVars,
                 titleVars>>

SelectCompletion == \E value \in Matches : CompletionSelected(value)

\* The user types in, and requests completion from, an editor holding "a".
SelectTextChanges == { c \in ITextChanges : c.newValue = <<"a">> }
SelectRequests == { r \in ICompletionRequests : r.currentValue = <<"a">> }

TypeText ==
  \E cell \in 0..(MaxCells - 1), change \in SelectTextChanges :
    TextChangedEmitted(cell, change)

RequestCompletion ==
  \E cell \in 0..(MaxCells - 1), change \in SelectRequests :
    CompletionRequestedEmitted(cell, change)

NextSelect ==
  \/ SetActiveCellIndex
  \/ TypeText
  \/ RequestCompletion
  \/ CompleteResolves
  \/ RunCompleteThen1
  \/ RunCompleteThen2
  \/ SelectCompletion

\* A notebook with one cell fewer than the indices the content widget reports.
InitSelect == Init /\ kernel = "k1" /\ cells = [i \in 1..(MaxCells - 1) |-> TRUE]

SpecSelect == InitSelect /\ [][NextSelect]_vars

ValidIndices == ~isDisposed /\ errors = {} /\ HasCell(activeCellIndex)

BoundToActiveCell ==
  ValidIndices =>
    (textChanged = {activeCellIndex} /\ completionRequested = {activeCellIndex})

\* C19: while the activeCellIndex events name existing cells, the one editor
\* connected is that of the cell at activeCellIndex; the patch of
\* onCompletionSelect goes to that editor, and a completion request the
\* panel handles comes from it, so the patched editor is the requesting one
\* unless the active cell changed in between.
C19_PatchGoesToBoundEditor ==
  /\ []BoundToActiveCell
  /\ [][/\ \A value \in Matches :
             (CompletionSelected(value) /\ ValidIndices) =>
               /\ errors' = errors
               /\ Val(applied').cell = activeCellIndex
               /\ Val(applied').cell \in textChanged
        /\ \A cell \in 0..(MaxCells - 1), change \in SelectRequests :
             (/\ CompletionRequestedEmitted(cell, change)
              /\ ValidIndices
              /\ delivered'.count = 1) => cell = activeCellIndex]_vars

\* A completion requested in the first cell was selected after the active cell
\* moved to the second one, and the second cell's editor was patched.
C19_Witness ==
  /\ ValidIndices
  /\ applied # Null
  /\ Val(applied).cell = 1
  /\ activeCellIndex = 1
  /\ textChanged = {1}
  /\ delivered.signal = "activeCellIndex"
  /\ delivered.old = 0
-----------------------------------------------------------------------------
\* The request token under every operation of the panel: a notebook of two
\* cells whose active editor is typed in and asked for completions.

TokenTypeText ==
  \E change \in SelectTextChanges : TextChangedEmitted(activeCellIndex, change)

TokenRequestCompletion ==
  \E change \in SelectRequests : CompletionRequestedEmitted(activeCellIndex, change)

TokenRebind == \E newValue \in {0, 1} : ActiveCellIndexChanged(newValue)

\* restart() is called once.
RestartOnce == CallRestart /\ restarts = <<>>

NextToken ==
  \/ TokenRequestCompletion
  \/ TokenTypeText
  \/ CompleteResolves
  \/ RunCompleteThen1
  \/ RunCompleteThen2
  \/ TokenRebind
  \/ SelectCompletion
  \/ RestartOnce
  \/ AnswerRestartDialog
  \/ RunRestartThen

InitToken ==
  Init /\ kernel \in {"k1", NoKernel} /\ cells = <<TRUE, TRUE>> /\ activeCellIndex = 0

SpecToken == InitToken /\ [][NextToken]_vars

\* C15: _pendingComplete never decreases; a completion request handled while
\* a kernel is attached adds exactly 1 to it, and no other step changes it:
\* not a text change (the whitespace reset included), a reaction to an
\* answer, an active-cell change, a selection or restart().
C15_TokenOnlyCounts ==
  [][IF /\ kernel # NoKernel
        /\ activeCellIndex \in completionRequested
        /\ \E change \in SelectRequests :
             CompletionRequestedEmitted(activeCellIndex, change)
       THEN _pendingComplete' = _pendingComplete + 1
       ELSE _pendingComplete' = _pendingComplete]_vars

\* MaxRequests requests were counted, and since then a whitespace reset, a
\* selection, an active-cell change and a confirmed restart() took place.
C15_Witness ==
  /\ _pendingComplete = MaxRequests
  /\ activeCellIndex = 1
  /\ applied # Null
  /\ completion.options = Null
  /\ restarts # <<>>
  /\ restarts[1].pc = "restarting"
  /\ \A t \in DOMAIN calls : calls[t].pc = "done"

\* C16: a completion request handled while no kernel is attached does
\* nothing: no kernel.complete call, no reaction queued, _pendingComplete and
\* the completion state unchanged; and every kernel.complete call ever made
\* has its own token, so no such request has an effect later.
C16_NoKernelRequestIsNoOp ==
  /\ [](Len(calls) = _pendingComplete)
  /\ [][\A cell \in 0..(MaxCells - 1), change \in ICompletionRequests :
         (/\ delivered'.signal = "completionRequested"
          /\ CompletionRequestedEmitted(cell, change)
          /\ cell \in completionRequested
          /\ kernel = NoKernel
          /\ ~isDisposed) =>
            /\ calls' = calls
            /\ microtasks' = microtasks
            /\ _pendingComplete' = _pendingComplete
            /\ completion' = completion
            /\ errors' = errors]_vars

\* A request was handled by a panel that never had a kernel.
C16_Witness ==
  /\ kernel = NoKernel
  /\ errors = {}
  /\ ~isDisposed
  /\ delivered = [signal |-> "completionRequested", cell |-> 0, old |-> 0,
                  count |-> 1]
  /\ calls = <<>>

NonWhitespaceChanges == { c \in ITextChanges : NonSpaceBefore(c) }

\* C17: a text change with a non-whitespace character before the cursor
\* sets current to the change when original is set and changes nothing when
\* it is absent; it makes no kernel.complete call and leaves options,
\* original, cursor and _pendingComplete as they were.
C17_NonWhitespaceOnlyUpdatesCurrent ==
  [][\A cell \in 0..(MaxCells - 1), change \in NonWhitespaceChanges :
       (/\ delivered'.signal = "textChanged"
        /\ TextChangedEmitted(cell, change)
        /\ cell \in textChanged
        /\ ~isDisposed) =>
          /\ completion.original # Null =>
               completion' = [completion EXCEPT !.current = Some(change)]
          /\ completion.original = Null => completion' = completion
          /\ calls' = calls
          /\ microtasks' = microtasks
          /\ _pendingComplete' = _pendingComplete
          /\ errors' = errors]_vars

\* A session is open and the last text change, handled by the panel, is its
\* current one.
C17_Witness ==
  /\ completion.original # Null
  /\ completion.options # Null
  /\ completion.current # Null
  /\ Val(completion.current) \in NonWhitespaceChanges
  /\ delivered = [signal |-> "textChanged", cell |-> 0, old |-> 0, count |-> 1]
-----------------------------------------------------------------------------
\* The title of the panel: the document's name and the dirty flag.

\* String.prototype.replace(token, '') on a class name held as a list of
\* tokens: only the first occurrence is removed.
RECURSIVE replace(_, _)
replace(className, token) ==
  IF className = <<>>
    THEN <<>>
    ELSE IF Head(className) = token
      THEN Tail(className)
      ELSE <<Head(className)>> \o replace(Tail(className), token)

\* The changes of state the notebook model reports.
ModelChanges ==
  { [name |-> "dirty", newValue |-> TRUE], [name |-> "dirty", newValue |-> FALSE],
    [name |-> "readOnly", newValue |-> TRUE] }

\* The handler the constructor connects to model.stateChanged.
onModelStateChanged(args) ==
  IF args.name = "dirty"
    THEN IF args.newValue
      THEN title' = [title EXCEPT !.className = @ \o <<" ", DIRTY_CLASS>>]
      ELSE title' = [title EXCEPT !.className = replace(@, DIRTY_CLASS)]
    ELSE UNCHANGED title

\* The model emits stateChanged.
ModelStateChanged(args) ==
  /\ Idle
  /\ (args.name = "dirty" /\ args.newValue) =>
       Len(title.className) < 2 * MaxDirtyEvents
  /\ onModelStateChanged(args)
  /\ lastDirty' = IF args.name = "dirty" THEN Some(args.newValue) ELSE lastDirty
  /\ UNCHANGED <<kernel, completionVars, isDisposed, microtasks, errors, cells,
                 bindingVars, delivered, dialogVars, kernelVars, applied>>

EmitModelStateChanged == \E args \in ModelChanges : ModelStateChanged(args)

\* The context emits pathChanged: the title shows the last segment.
PathChanged ==
  \E path \in Paths :
    /\ Idle
    /\ title' = [title EXCEPT !.text = Pop(split(path, "/"))]
    /\ UNCHANGED <<kernel, completionVars, isDisposed, microtasks, errors, cells,
                   bindingVars, delivered, dialogVars, kernelVars, lastDirty, applied>>

NextDirty ==
  \/ EmitModelStateChanged
  \/ PathChanged

InitDirty == Init /\ kernel = NoKernel /\ cells = <<TRUE>> /\ activeCellIndex = 0

SpecDirty == InitDirty /\ [][NextDirty]_vars

\* The title carries the dirty flag.
HasDirtyFlag == \E i \in DOMAIN title.className : title.className[i] = DIRTY_CLASS

\* C18: after any sequence of 'dirty' changes of the model, two in a row with
\* the same newValue included, the title carries the dirty flag exactly when
\* the newValue of the last one was true.
C18_DirtyFlagFollowsLastEvent ==
  lastDirty # Null => (HasDirtyFlag <=> Val(lastDirty))

\* C20: restart() acts on the kernel it captured when it was called: when
\* the dialog is answered 'OK', kernel.restart is invoked once, on the
\* captured kernel, and not on the kernel attached at that time if the
\* context's kernel was replaced or detached while the dialog was open.
C20_RestartsCapturedKernel ==
  [][(RunRestartThen /\ Head(microtasks).value = Some("OK")) =>
       LET call == restarts[Head(microtasks).id]
           after == restarts'[Head(microtasks).id]
       IN  /\ call.restarted = <<>>
           /\ after.restarted = <<call.kernel>>
           /\ call.kernelAtAnswer = Some(kernel)
           /\ kernel # call.kernel =>
                \A j \in DOMAIN after.restarted : after.restarted[j] # kernel]_vars

\* The kernel was replaced while the dialog was open, the dialog was answered
\* 'OK', and the captured kernel was restarted.
C20_Witness ==
  \E i \in DOMAIN restarts :
    /\ restarts[i].answer = Some("OK")
    /\ restarts[i].kernelAtAnswer # Null
    /\ restarts[i].kernelAtAnswer # Some(restarts[i].kernel)
    /\ restarts[i].kernelAtAnswer # Some(NoKernel)
    /\ restarts[i].restarted = <<restarts[i].kernel>>
-----------------------------------------------------------------------------
\* The panel as a whole: every operation, from any state of construction.
Next ==
  \/ NextCompletion
  \/ NextRebind
  \/ NextRestart
  \/ NextTrust
  \/ NextKernel
  \/ NextSelect
  \/ NextDirty

Spec == Init /\ [][Next]_vars
====
